---- MODULE Spec2Model ----
(***************************************************************************)
(* Scribble Quest backend: the POST /api/analyze-drawing handler of        *)
(* src/main.py (process_image, challenge parsing, the vision judgment,     *)
(* the reward image and the response it returns).                          *)
(*                                                                         *)
(* Texts are TLA+ strings in the state; the Python string methods the      *)
(* handler uses (lower, upper, strip, split, replace, startswith, in) are  *)
(* computed on their character sequences.                                  *)
(***************************************************************************)
EXTENDS Integers, Sequences, FiniteSets, TLC

VARIABLES pc, request, image_analysis, challenge_object, ai_response,
          is_match, description, message, response_data, response, trace

vars == <<pc, request, image_analysis, challenge_object, ai_response,
          is_match, description, message, response_data, response, trace>>

(***************************************************************************)
(* Bounds of the model.                                                    *)
(***************************************************************************)
\* pixel runs of a submitted raster
MaxRuns == 2
\* pieces a challenge text is put together from
MaxChunks == 3
\* lines of a vision-model reply
MaxLines == 3

(***************************************************************************)
(* Python str, on sequences of one-character strings.                      *)
(***************************************************************************)
Chars(s) == [i \in 1..Len(s) |-> SubSeq(s, i, i)]

RECURSIVE Str(_)
Str(cs) == IF cs = <<>> THEN "" ELSE Head(cs) \o Str(Tail(cs))

UpperAlpha == Chars("ABCDEFGHIJKLMNOPQRSTUVWXYZ")
LowerAlpha == Chars("abcdefghijklmnopqrstuvwxyz")
Whitespace == {" ", "\n", "\t", "\r"}

LowerChar(c) ==
    IF \E i \in 1..26 : UpperAlpha[i] = c
    THEN LowerAlpha[CHOOSE i \in 1..26 : UpperAlpha[i] = c]
    ELSE c

UpperChar(c) ==
    IF \E i \in 1..26 : LowerAlpha[i] = c
    THEN UpperAlpha[CHOOSE i \in 1..26 : LowerAlpha[i] = c]
    ELSE c

\* str.lower(), str.upper()
Lower(cs) == [i \in 1..Len(cs) |-> LowerChar(cs[i])]
Upper(cs) == [i \in 1..Len(cs) |-> UpperChar(cs[i])]

RECURSIVE LStrip(_)
LStrip(cs) ==
    IF cs # <<>> /\ Head(cs) \in Whitespace THEN LStrip(Tail(cs)) ELSE cs

RECURSIVE RStrip(_)
RStrip(cs) ==
    IF cs # <<>> /\ cs[Len(cs)] \in Whitespace
    THEN RStrip(SubSeq(cs, 1, Len(cs) - 1)) ELSE cs

\* str.strip(): leading and trailing whitespace removed
Strip(cs) == RStrip(LStrip(cs))

MatchesAt(cs, sub, i) ==
    /\ i >= 1
    /\ i + Len(sub) - 1 <= Len(cs)
    /\ \A k \in 1..Len(sub) : cs[i + k - 1] = sub[k]

RECURSIVE FindFrom(_, _, _)
FindFrom(cs, sub, i) ==
    IF i + Len(sub) - 1 > Len(cs) THEN 0
    ELSE IF MatchesAt(cs, sub, i) THEN i
    ELSE FindFrom(cs, sub, i + 1)

\* str.find(sub) + 1: the place of the first occurrence, 0 when there is none
Find(cs, sub) == FindFrom(cs, sub, 1)

\* sub in cs
Contains(cs, sub) == Find(cs, sub) # 0

\* cs.startswith(sub)
StartsWith(cs, sub) == MatchesAt(cs, sub, 1)

\* cs.replace(old, ""): every occurrence removed, left to right
RECURSIVE Remove(_, _)
Remove(cs, old) ==
    LET i == Find(cs, old)
    IN  IF i = 0 THEN cs
        ELSE SubSeq(cs, 1, i - 1) \o Remove(SubSeq(cs, i + Len(old), Len(cs)), old)

\* cs.split(sep): the pieces between the occurrences of sep
RECURSIVE Split(_, _)
Split(cs, sep) ==
    LET i == Find(cs, sep)
    IN  IF i = 0 THEN <<cs>>
        ELSE <<SubSeq(cs, 1, i - 1)>> \o Split(SubSeq(cs, i + Len(sep), Len(cs)), sep)

(***************************************************************************)
(* The submitted image.  The handler sees it only through process_image:   *)
(* whether the data URL has the "...;base64," prefix before a comma,       *)
(* whether the payload is base64 of a raster, and the raster's pixels,     *)
(* kept as runs [px |-> channels, n |-> how many].  A one-band raster      *)
(* (mode L or P) has getdata() yield bare integers.                        *)
(***************************************************************************)
PixelSumLimit == 750
InkThreshold == 100

White == <<255, 255, 255>>
PaleGrey == <<250, 250, 250>>
FaintInk == <<250, 250, 249>>
Transparent == <<0, 0, 0, 0>>
GreyWhite == <<255>>

PixelValues == {White, PaleGrey, FaintInk, Transparent, GreyWhite}
RunLengths == {1, InkThreshold - 1, InkThreshold}
Runs == [px : PixelValues, n : RunLengths]

Rasters ==
    {r \in UNION {[1..k -> Runs] : k \in 1..MaxRuns} :
        \A i, j \in 1..Len(r) : Len(r[i].px) = Len(r[j].px)}

Images ==
    {[prefix |-> p, payload |-> "raster", pixels |-> r] :
        p \in BOOLEAN, r \in Rasters}
    \cup {[prefix |-> p, payload |-> x, pixels |-> <<>>] :
        p \in BOOLEAN, x \in {"not_base64", "not_a_raster"}}

NotSet == [unset |-> TRUE]

RECURSIVE TotalPixels(_)
TotalPixels(runs) ==
    IF runs = <<>> THEN 0 ELSE Head(runs).n + TotalPixels(Tail(runs))

\* sum(pixel[:3])
ChannelSum(px) ==
    px[1] + (IF Len(px) >= 2 THEN px[2] ELSE 0) + (IF Len(px) >= 3 THEN px[3] ELSE 0)

\* sum(1 for pixel in pixels if sum(pixel[:3]) < 750)
RECURSIVE DrawingPixels(_)
DrawingPixels(runs) ==
    IF runs = <<>> THEN 0
    ELSE (IF ChannelSum(Head(runs).px) < PixelSumLimit THEN Head(runs).n ELSE 0)
         + DrawingPixels(Tail(runs))

\* the threshold taken as inclusive
HasDrawingAtThreshold(drawing_pixels) == drawing_pixels >= InkThreshold

HasDrawing(drawing_pixels) == drawing_pixels > InkThreshold

\* process_image: every exception becomes {"error": ...}
process_image(image_data_url) ==
    IF ~image_data_url.prefix THEN [error |-> "IndexError"]
    ELSE IF image_data_url.payload = "not_base64" THEN [error |-> "binascii.Error"]
    ELSE IF image_data_url.payload = "not_a_raster" THEN [error |-> "UnidentifiedImageError"]
    ELSE IF \E i \in 1..Len(image_data_url.pixels) : Len(image_data_url.pixels[i].px) = 1
         THEN [error |-> "TypeError"]
    ELSE IF TotalPixels(image_data_url.pixels) = 0 THEN [error |-> "ZeroDivisionError"]
    ELSE [size |-> TotalPixels(image_data_url.pixels),
          drawing_density |-> <<DrawingPixels(image_data_url.pixels),
                                TotalPixels(image_data_url.pixels)>>,
          has_drawing |-> HasDrawing(DrawingPixels(image_data_url.pixels))]

(***************************************************************************)
(* The challenge object embedded in the vision prompt.                     *)
(***************************************************************************)
\* the chain without its .replace("!", "")
ExtractObjectKeepBang(challenge_text) ==
    IF Contains(challenge_text, Chars("draw a "))
    THEN Strip(Split(challenge_text, Chars("draw a "))[2])
    ELSE IF Contains(challenge_text, Chars("draw an "))
    THEN Strip(Split(challenge_text, Chars("draw an "))[2])
    ELSE IF StartsWith(challenge_text, Chars("draw "))
    THEN Strip(SubSeq(challenge_text, 6, Len(challenge_text)))
    ELSE Strip(Remove(Remove(challenge_text, Chars("draw")), Chars("something")))

\* the if/elif chain over challenge_text = request.challenge.lower().strip()
ExtractObject(challenge_text) ==
    IF Contains(challenge_text, Chars("draw a "))
    THEN Strip(Remove(Split(challenge_text, Chars("draw a "))[2], Chars("!")))
    ELSE IF Contains(challenge_text, Chars("draw an "))
    THEN Strip(Remove(Split(challenge_text, Chars("draw an "))[2], Chars("!")))
    ELSE IF StartsWith(challenge_text, Chars("draw "))
    THEN Strip(Remove(SubSeq(challenge_text, 6, Len(challenge_text)), Chars("!")))
    ELSE Strip(Remove(Remove(Remove(challenge_text, Chars("draw")),
                             Chars("something")), Chars("!")))

\* the fallback taking challenge_text, the lower-cased and trimmed challenge
ChallengeObjectLowered(challenge) ==
    LET challenge_text == Strip(Lower(Chars(challenge)))
        extracted == ExtractObject(challenge_text)
    IN  IF extracted = <<>> \/ Len(extracted) < 2
        THEN Str(challenge_text) ELSE Str(extracted)

\* if not challenge_object or len(challenge_object) < 2: use request.challenge
ChallengeObject(challenge) ==
    LET extracted == ExtractObject(Strip(Lower(Chars(challenge))))
    IN  IF extracted = <<>> \/ Len(extracted) < 2 THEN challenge ELSE Str(extracted)

(***************************************************************************)
(* The judgment parsed from the vision model's reply.                      *)
(***************************************************************************)
DefaultJudgment ==
    [is_match |-> FALSE,
     description |-> "I can see your drawing!",
     message |-> "Great effort on your drawing!"]

\* the match taken from a YES anywhere in the reply, whatever the line
ParseLineAnyYes(j, raw) ==
    LET line == Strip(raw)
        seen == [j EXCEPT !.is_match = j.is_match \/ Contains(Upper(line), Chars("YES"))]
    IN  IF StartsWith(line, Chars("DESCRIPTION:"))
        THEN [seen EXCEPT !.description = Str(Strip(Remove(line, Chars("DESCRIPTION:"))))]
        ELSE IF StartsWith(line, Chars("MESSAGE:"))
        THEN [seen EXCEPT !.message = Str(Strip(Remove(line, Chars("MESSAGE:"))))]
        ELSE seen

\* one iteration of "for line in lines"
ParseLine(j, raw) ==
    LET line == Strip(raw)
    IN  IF StartsWith(line, Chars("MATCH:"))
        THEN [j EXCEPT !.is_match =
                Contains(Upper(Strip(Remove(line, Chars("MATCH:")))), Chars("YES"))]
        ELSE IF StartsWith(line, Chars("DESCRIPTION:"))
        THEN [j EXCEPT !.description = Str(Strip(Remove(line, Chars("DESCRIPTION:"))))]
        ELSE IF StartsWith(line, Chars("MESSAGE:"))
        THEN [j EXCEPT !.message = Str(Strip(Remove(line, Chars("MESSAGE:"))))]
        ELSE j

RECURSIVE ParseLines(_, _)
ParseLines(j, lines) ==
    IF lines = <<>> THEN j ELSE ParseLines(ParseLine(j, Head(lines)), Tail(lines))

\* content.strip(), split('\n'), the loop
ParseJudgment(content) ==
    ParseLines(DefaultJudgment, Split(Strip(Chars(content)), Chars("\n")))

(***************************************************************************)
(* The responses analyze_drawing returns.                                  *)
(***************************************************************************)
ErrorResponse ==
    [title |-> "Error!",
     message |-> "Could not process your drawing. Try again!",
     points |-> 0, success |-> FALSE]

NoDrawingResponse ==
    [title |-> "No Drawing!",
     message |-> "I don't see any drawing. Try drawing something!",
     points |-> 0, success |-> FALSE]

\* the match response under another title
PerfectResponseAmazing(desc, msg) ==
    [title |-> "Amazing!", message |-> desc \o " " \o msg,
     points |-> 100, success |-> TRUE]

PerfectResponse(desc, msg) ==
    [title |-> "Perfect!", message |-> desc \o " " \o msg,
     points |-> 100, success |-> TRUE]

MasterpieceSuffix == " Check out your masterpiece!"

\* response_data["reward_image"] = image_url; response_data["message"] += ...
WithReward(data, image_url) ==
    [title |-> data.title, message |-> data.message \o MasterpieceSuffix,
     points |-> data.points, success |-> data.success, reward_image |-> image_url]

TryAgainResponse(desc, msg, object) ==
    [title |-> "Try Again!",
     message |-> desc \o " " \o msg \o " You were asked to draw: " \o object,
     points |-> 25, success |-> FALSE]

\* the judgment failure reported as a failed round
FallbackResponseOops ==
    [title |-> "Oops!",
     message |-> "I couldn't analyze your drawing right now. Try again!",
     points |-> 0, success |-> FALSE]

FallbackResponse ==
    [title |-> "Something Magical!",
     message |-> "I can see you drew something creative! The AI is taking a break, but your art is still wonderful!",
     points |-> 50, success |-> TRUE]

(***************************************************************************)
(* Requests, replies of the vision model, results of the image model.      *)
(***************************************************************************)
Challenges == {"Draw a cat!", "Draw an owl!", "Draw something!", "draw", ""}

Requests == [image : Images, challenge : Challenges]

NoRequest ==
    [image |-> [prefix |-> FALSE, payload |-> "none", pixels |-> <<>>],
     challenge |-> ""]

Replies ==
    {"MATCH: YES\nDESCRIPTION: A cat with whiskers\nMESSAGE: Lovely work!",
     "MATCH: NO\nDESCRIPTION: A round shape\nMESSAGE: Keep practising!",
     "match: yes",
     "MATCH: yes",
     "YES, it matches",
     ""}

ImageUrls == {"https://images.example/reward.png"}

\* what a call to the model provider can raise
CallErrors == {"APIConnectionError", "RateLimitError", "AttributeError"}

\* an entry of trace: a step of the handler and how it ended
Did(step, outcome) == [step |-> step, outcome |-> outcome]

(***************************************************************************)
(* analyze_drawing, one action per stretch of the handler between two      *)
(* calls out of it.  trace lists what the request has done so far.         *)
(***************************************************************************)
Init ==
    /\ pc = "idle"
    /\ request = NoRequest
    /\ image_analysis = NotSet
    /\ challenge_object = ""
    /\ ai_response = ""
    /\ is_match = FALSE
    /\ description = ""
    /\ message = ""
    /\ response_data = NotSet
    /\ response = NotSet
    /\ trace = <<>>

\* a POST /api/analyze-drawing arrives
Receive(r) ==
    /\ pc = "idle"
    /\ pc' = "precheck"
    /\ request' = r
    /\ UNCHANGED <<image_analysis, challenge_object, ai_response, is_match,
                   description, message, response_data, response, trace>>

\* the response has been sent: nothing of the request outlives it
Finish ==
    /\ pc = "done"
    /\ pc' = "idle"
    /\ request' = NoRequest
    /\ image_analysis' = NotSet
    /\ challenge_object' = ""
    /\ ai_response' = ""
    /\ is_match' = FALSE
    /\ description' = ""
    /\ message' = ""
    /\ response_data' = NotSet
    /\ response' = NotSet
    /\ trace' = <<>>

\* the "error" key not looked at: only image_analysis.get("has_drawing", False)
AfterPrecheckNoErrorCheck(analysis) ==
    IF "has_drawing" \in DOMAIN analysis /\ analysis.has_drawing THEN "parse"
    ELSE "blank"

\* where the handler goes after process_image
AfterPrecheck(analysis) ==
    IF "error" \in DOMAIN analysis THEN "error"
    ELSE IF ~analysis.has_drawing THEN "blank"
    ELSE "parse"

\* process_image and the two early returns
Precheck ==
    /\ pc = "precheck"
    /\ image_analysis' = process_image(request.image)
    /\ LET to == AfterPrecheck(image_analysis')
       IN  /\ pc' = IF to = "parse" THEN "parse" ELSE "done"
           /\ response' = IF to = "error" THEN ErrorResponse
                          ELSE IF to = "blank" THEN NoDrawingResponse
                          ELSE response
           /\ trace' = trace \o <<Did("process_image",
                                       IF to = "error" THEN image_analysis'.error ELSE "ok")>>
                             \o (IF to = "parse" THEN <<>> ELSE <<Did("return", "ok")>>)
    /\ UNCHANGED <<request, challenge_object, ai_response, is_match,
                   description, message, response_data>>

\* the challenge object is extracted
ParseChallenge ==
    /\ pc = "parse"
    /\ \E object \in {ChallengeObject(request.challenge)} : challenge_object' = object
    /\ pc' = "vision"
    /\ trace' = Append(trace, Did("parse_challenge", "ok"))
    /\ UNCHANGED <<request, image_analysis, ai_response, is_match,
                   description, message, response_data, response>>

\* where the handler goes once the vision call has raised
AfterVisionFailure == "done"

\* chat.completions.create (or reading its content) raises: the outer except
VisionFails(cause) ==
    /\ pc = "vision"
    /\ pc' = AfterVisionFailure
    /\ response' = FallbackResponse
    /\ trace' = trace \o <<Did("vision", cause), Did("return", "ok")>>
    /\ UNCHANGED <<request, image_analysis, challenge_object, ai_response,
                   is_match, description, message, response_data>>

\* the reward generated whatever the judgment
AfterJudgmentAlways(matched) == "dalle"

\* where the handler goes after the judgment is parsed
AfterJudgment(matched) == IF matched THEN "dalle" ELSE "done"

\* the vision model replies: the reply is parsed, and a non-match returns
VisionReplies(content) ==
    /\ pc = "vision"
    /\ \E stripped \in {Str(Strip(Chars(content)))} : ai_response' = stripped
    /\ \E j \in {ParseJudgment(content)} :
           /\ is_match' = j.is_match
           /\ description' = j.description
           /\ message' = j.message
           /\ pc' = AfterJudgment(j.is_match)
           /\ response_data' =
                IF j.is_match THEN PerfectResponse(j.description, j.message)
                ELSE response_data
           /\ response' =
                IF AfterJudgment(j.is_match) = "done"
                THEN TryAgainResponse(j.description, j.message, challenge_object)
                ELSE response
           /\ trace' = trace \o <<Did("vision", "ok")>>
                             \o (IF AfterJudgment(j.is_match) = "done"
                                 THEN <<Did("return", "ok")>> ELSE <<>>)
    /\ UNCHANGED <<request, image_analysis, challenge_object>>

\* images.generate returns a URL
DalleSucceeds(image_url) ==
    /\ pc = "dalle"
    /\ response_data' = WithReward(response_data, image_url)
    /\ response' = response_data'
    /\ pc' = "done"
    /\ trace' = trace \o <<Did("dalle", "ok"), Did("return", "ok")>>
    /\ UNCHANGED <<request, image_analysis, challenge_object, ai_response,
                   is_match, description, message>>

\* images.generate raises with no inner except: the outer except answers
DalleFailsUncaught(cause) ==
    /\ pc = "dalle"
    /\ response' = FallbackResponse
    /\ pc' = "done"
    /\ trace' = trace \o <<Did("dalle", cause), Did("return", "ok")>>
    /\ UNCHANGED <<request, image_analysis, challenge_object, ai_response,
                   is_match, description, message, response_data>>

\* images.generate raises: the inner except, response_data as it was
DalleFails(cause) ==
    /\ pc = "dalle"
    /\ response' = response_data
    /\ pc' = "done"
    /\ trace' = trace \o <<Did("dalle", cause), Did("return", "ok")>>
    /\ UNCHANGED <<request, image_analysis, challenge_object, ai_response,
                   is_match, description, message, response_data>>

HandlerStep ==
    \/ Precheck
    \/ ParseChallenge
    \/ \E cause \in CallErrors : VisionFails(cause)
    \/ \E content \in Replies : VisionReplies(content)
    \/ \E image_url \in ImageUrls : DalleSucceeds(image_url)
    \/ \E cause \in CallErrors : DalleFails(cause)

Next ==
    \/ \E r \in Requests : Receive(r)
    \/ HandlerStep
    \/ Finish

Spec == Init /\ [][Next]_vars

(***************************************************************************)
(* The challenge parser on its own: the handler just past the precheck,    *)
(* with a challenge text put together from pieces.                         *)
(***************************************************************************)
RECURSIVE Concat(_)
Concat(strings) ==
    IF strings = <<>> THEN "" ELSE Head(strings) \o Concat(Tail(strings))

RECURSIVE JoinLines(_)
JoinLines(lines) ==
    IF lines = <<>> THEN ""
    ELSE IF Len(lines) = 1 THEN Head(lines)
    ELSE Head(lines) \o "\n" \o JoinLines(Tail(lines))

ChallengeChunks ==
    {"Draw a ", "Draw an ", "Draw ", "draw", "something", "cat", "owl", "!", " ", "a"}

ChallengeTexts ==
    {Concat(c) : c \in UNION {[1..k -> ChallengeChunks] : k \in 0..MaxChunks}}

\* a raster with more than InkThreshold ink pixels, behind a data-URL prefix
InkyImage ==
    [prefix |-> TRUE, payload |-> "raster",
     pixels |-> <<[px |-> FaintInk, n |-> InkThreshold], [px |-> FaintInk, n |-> 1]>>]

ChallengeInit ==
    /\ pc = "parse"
    /\ request \in [image : {InkyImage}, challenge : ChallengeTexts]
    /\ image_analysis = process_image(InkyImage)
    /\ challenge_object = ""
    /\ ai_response = ""
    /\ is_match = FALSE
    /\ description = ""
    /\ message = ""
    /\ response_data = NotSet
    /\ response = NotSet
    /\ trace = <<Did("process_image", "ok")>>

ChallengeNext == ParseChallenge

ChallengeSpec == ChallengeInit /\ [][ChallengeNext]_vars

(***************************************************************************)
(* The judgment parser on its own: the handler about to call the vision    *)
(* model, whose reply is any text of up to MaxLines of these lines.        *)
(***************************************************************************)
ReplyLines ==
    {"MATCH: YES",
     "MATCH: NO",
     "  MATCH: yes, it is  ",
     "Match: YES",
     "MATCH:YMATCH:ES",
     "DESCRIPTION: A cat",
     "DESCRIPTION: YES, a cat",
     "MESSAGE: Nice lines!",
     "YES",
     ""}

JudgeReplies ==
    {JoinLines(l) : l \in UNION {[1..k -> ReplyLines] : k \in 0..MaxLines}}

JudgmentInit ==
    /\ pc = "vision"
    /\ request = [image |-> InkyImage, challenge |-> "Draw a cat!"]
    /\ image_analysis = process_image(InkyImage)
    /\ challenge_object = ChallengeObject("Draw a cat!")
    /\ ai_response = ""
    /\ is_match = FALSE
    /\ description = ""
    /\ message = ""
    /\ response_data = NotSet
    /\ response = NotSet
    /\ trace = <<Did("process_image", "ok"), Did("parse_challenge", "ok")>>

JudgmentNext == \E content \in JudgeReplies : VisionReplies(content)

JudgmentSpec == JudgmentInit /\ [][JudgmentNext]_vars

(***************************************************************************)
(* What the claims speak of.                                               *)
(***************************************************************************)
Called(step) == \E i \in 1..Len(trace) : trace[i].step = step

Succeeded(step) ==
    \E i \in 1..Len(trace) : trace[i].step = step /\ trace[i].outcome = "ok"

Failed(step) ==
    \E i \in 1..Len(trace) : trace[i].step = step /\ trace[i].outcome # "ok"

TraceSteps == [i \in 1..Len(trace) |-> trace[i].step]

IsPrefix(s, t) == Len(s) <= Len(t) /\ SubSeq(t, 1, Len(s)) = s

\* the raster has red, green and blue channels
HasRGB(image) ==
    \A i \in 1..Len(image.pixels) : Len(image.pixels[i].px) >= 3

\* the pixels whose R + G + B is below 750
RECURSIVE InkPixels(_)
InkPixels(runs) ==
    IF runs = <<>> THEN 0
    ELSE (IF Head(runs).px[1] + Head(runs).px[2] + Head(runs).px[3] < 750
          THEN Head(runs).n ELSE 0) + InkPixels(Tail(runs))

\* the request's image decodes: data-URL prefix, base64, raster with R, G, B
Decodes(image) ==
    image.prefix /\ image.payload = "raster" /\ HasRGB(image)

\* the lines of the reply, each trimmed
ReplyLinesOf(reply) ==
    LET ls == Split(Chars(reply), Chars("\n"))
    IN  [i \in 1..Len(ls) |-> Strip(ls[i])]

\* title, points and success of the five responses
Outcomes ==
    {<<"Error!", 0, FALSE>>, <<"No Drawing!", 0, FALSE>>, <<"Try Again!", 25, FALSE>>,
     <<"Something Magical!", 50, TRUE>>, <<"Perfect!", 100, TRUE>>}

\* how far the handler is
Rank(at) ==
    CASE at = "precheck" -> 1
      [] at = "parse" -> 2
      [] at = "vision" -> 3
      [] at = "dalle" -> 4
      [] at = "done" -> 5
      [] OTHER -> 0

\* a step of a running handler takes it further on, never back or round
C5_Onward ==
    \/ pc = "idle" /\ pc' = "precheck"
    \/ pc = "done" /\ pc' = "idle"
    \/ pc \in {"precheck", "parse", "vision", "dalle"} /\ Rank(pc') > Rank(pc)

\* the steps of a request, in the orders they can come
StepOrders ==
    {<<"process_image", "return">>,
     <<"process_image", "parse_challenge", "vision", "return">>,
     <<"process_image", "parse_challenge", "vision", "dalle", "return">>}

C2_MalformedPayload ==
    (pc # "idle" /\ request.image.payload \in {"not_base64", "not_a_raster"})
    => /\ ~Called("vision")
       /\ ~Called("dalle")
       /\ ~Called("parse_challenge")
       /\ pc \in {"precheck", "done"}
       /\ pc = "done" =>
            /\ response.title = "Error!"
            /\ response.points = 0
            /\ response.success = FALSE

C2_Witness ==
    /\ pc = "done"
    /\ request.image.prefix
    /\ request.image.payload = "not_base64"
    /\ response.title = "Error!"
    /\ TraceSteps = <<"process_image", "return">>

(***************************************************************************)
(* C3: when the judgment parsed to a match, the response has title         *)
(* "Perfect!", points 100 and success true whether the reward call         *)
(* succeeded or failed; reward_image is there iff the reward call          *)
(* succeeded, and the message is description, a space and the model's      *)
(* message, with " Check out your masterpiece!" put at its end iff the     *)
(* reward call succeeded.                                                  *)
(***************************************************************************)
C3_MatchWhateverTheReward ==
    (pc = "done" /\ is_match)
    => /\ response.title = "Perfect!"
       /\ response.points = 100
       /\ response.success = TRUE
       /\ Called("dalle")
       /\ ("reward_image" \in DOMAIN response) <=> Succeeded("dalle")
       /\ DOMAIN response \ {"reward_image"} = {"title", "message", "points", "success"}
       /\ response.message =
            description \o " " \o message
            \o (IF Succeeded("dalle") THEN " Check out your masterpiece!" ELSE "")

C3_Witness ==
    /\ pc = "done"
    /\ is_match
    /\ Failed("dalle")
    /\ response.points = 100
    /\ "reward_image" \notin DOMAIN response

(***************************************************************************)
(* C4: when the image passed the precheck and the vision call fails, the   *)
(* response is the fallback: title "Something Magical!", points 50,        *)
(* success true, no reward_image, the same whatever the cause of the       *)
(* failure and whatever the challenge.                                     *)
(***************************************************************************)
C4_JudgmentFailure ==
    (pc = "done" /\ Failed("vision"))
    => /\ image_analysis.has_drawing
       /\ ~Called("dalle")
       /\ response =
            [title |-> "Something Magical!",
             message |-> "I can see you drew something creative! The AI is taking a break, but your art is still wonderful!",
             points |-> 50, success |-> TRUE]

C4_Witness ==
    /\ pc = "done"
    /\ request.challenge = "Draw an owl!"
    /\ \E i \in 1..Len(trace) :
          trace[i].step = "vision" /\ trace[i].outcome = "RateLimitError"
    /\ response.points = 50

(***************************************************************************)
(* C5: every request is answered with exactly one response, whose title,   *)
(* points and success are one of the five outcomes, with reward_image      *)
(* only beside points 100; and every step of the handler takes it nearer   *)
(* to its return, whatever the image and the two models do: it raises      *)
(* nothing and goes round no loop.                                         *)
(***************************************************************************)
C5_OneOfFiveOutcomes ==
    /\ pc = "done" =>
         /\ response # NotSet
         /\ DOMAIN response \ {"reward_image"} = {"title", "message", "points", "success"}
         /\ <<response.title, response.points, response.success>> \in Outcomes
         /\ "reward_image" \in DOMAIN response => response.points = 100
         /\ Cardinality({i \in 1..Len(trace) : trace[i].step = "return"}) = 1
         /\ trace[Len(trace)].step = "return"
    /\ pc \in {"precheck", "parse", "vision", "dalle"} =>
         /\ response = NotSet
         /\ ~Called("return")
    /\ pc \in {"idle", "precheck", "parse", "vision", "dalle", "done"}

\* C5: at every state the answer is one of the five, and every step is onward
C5_AlwaysAnswered == []C5_OneOfFiveOutcomes /\ [][C5_Onward]_vars

C5_Witness ==
    /\ pc = "done"
    /\ response.points = 100
    /\ "reward_image" \in DOMAIN response
    /\ Len(trace) = 5

(***************************************************************************)
(* C8: the steps of a request come in the order precheck, challenge        *)
(* parse, vision call, reward call, response; the vision model is called   *)
(* at most once and only once the precheck found a drawing; the image      *)
(* model is called at most once, only after a vision call that succeeded   *)
(* and parsed to a match, and on none of the other four paths; a failed    *)
(* call is not made again.                                                 *)
(***************************************************************************)
C8_StepOrder ==
    /\ \E order \in StepOrders : IsPrefix(TraceSteps, order)
    /\ (pc = "vision" \/ Called("vision")) =>
         /\ "has_drawing" \in DOMAIN image_analysis
         /\ image_analysis.has_drawing
         /\ Called("parse_challenge")
    /\ (pc = "dalle" \/ Called("dalle")) => (Succeeded("vision") /\ is_match)
    /\ (Failed("vision") \/ Failed("dalle")) => pc = "done"
    /\ (pc = "done" /\ response.title \in
            {"Error!", "No Drawing!", "Try Again!", "Something Magical!"})
         => ~Called("dalle")

C8_Witness ==
    /\ pc = "done"
    /\ TraceSteps = <<"process_image", "parse_challenge", "vision", "dalle", "return">>
    /\ Succeeded("dalle")

(***************************************************************************)
(* C10: a payload that is the bare base64 of a raster, with no prefix and  *)
(* no comma, is analysed for ink like the prefixed one and is not          *)
(* answered with "Error!".                                                 *)
(***************************************************************************)
C10_PrefixOptional ==
    (pc \notin {"idle", "precheck"} /\ ~request.image.prefix
        /\ request.image.payload = "raster" /\ HasRGB(request.image))
    => /\ image_analysis = process_image([request.image EXCEPT !.prefix = TRUE])
       /\ pc = "done" => response.title # "Error!"

(***************************************************************************)
(* C6: the challenge parser maps "Draw a cat!" to "cat", "Draw an owl!"    *)
(* to "owl", and for "Draw something!" extracts fewer than 2 characters    *)
(* and falls back to "Draw something!".                                    *)
(***************************************************************************)
C6_AsClaimed ==
    pc = "vision" =>
        /\ request.challenge = "Draw a cat!" => challenge_object = "cat"
        /\ request.challenge = "Draw an owl!" => challenge_object = "owl"
        /\ request.challenge = "Draw something!" => challenge_object = "Draw something!"

(***************************************************************************)
(* C6, amended: "Draw a cat!" gives "cat", "Draw an owl!" gives "owl",     *)
(* and "Draw something!" gives "something": the text after "draw " has 9   *)
(* characters, so there is no fallback.                                    *)
(***************************************************************************)
C6_Amended ==
    pc = "vision" =>
        /\ request.challenge = "Draw a cat!" => challenge_object = "cat"
        /\ request.challenge = "Draw an owl!" => challenge_object = "owl"
        /\ request.challenge = "Draw something!" => challenge_object = "something"

C6_Witness ==
    /\ pc = "vision"
    /\ request.challenge = "Draw something!"
    /\ challenge_object = "something"

(***************************************************************************)
(* C9: for every challenge string the challenge object is not empty.       *)
(***************************************************************************)
C9_AsClaimed ==
    pc = "vision" => challenge_object # ""

(***************************************************************************)
(* C9, amended: an extraction that is empty or shorter than 2 characters   *)
(* is replaced by the original challenge string, and the challenge object  *)
(* is empty only when the challenge string itself is empty.                *)
(***************************************************************************)
C9_Amended ==
    pc = "vision" =>
        /\ Len(challenge_object) < 2 => challenge_object = request.challenge
        /\ Len(ExtractObject(Strip(Lower(Chars(request.challenge))))) < 2
             => challenge_object = request.challenge
        /\ challenge_object = "" <=> request.challenge = ""

C9_Witness ==
    /\ pc = "vision"
    /\ request.challenge = "Draw a !"
    /\ ExtractObject(Strip(Lower(Chars(request.challenge)))) = <<>>
    /\ challenge_object = "Draw a !"

(***************************************************************************)
(* C7: the judgment parse is total: every reply is parsed; a field with    *)
(* no line of its own keeps its default; and is_match is true only if      *)
(* some line beginning with "MATCH:" has, with "MATCH:" taken out of it    *)
(* and upper-cased, a "YES" in it (a "YES" on another line does not        *)
(* count).                                                                 *)
(***************************************************************************)
C7_ParseTotal ==
    /\ pc = "vision" =>
         \A content \in JudgeReplies : \E j \in {ParseJudgment(content)} :
             /\ DOMAIN j = {"is_match", "description", "message"}
             /\ j.is_match \in BOOLEAN
             /\ j.description \in STRING
             /\ j.message \in STRING
    /\ Succeeded("vision") =>
         LET lines == ReplyLinesOf(ai_response)
             Has(key) == \E i \in 1..Len(lines) : StartsWith(lines[i], Chars(key))
         IN  /\ ~Has("MATCH:") => ~is_match
             /\ ~Has("DESCRIPTION:") => description = "I can see your drawing!"
             /\ ~Has("MESSAGE:") => message = "Great effort on your drawing!"
             /\ is_match =>
                  \E i \in 1..Len(lines) :
                      /\ StartsWith(lines[i], Chars("MATCH:"))
                      /\ Contains(Upper(Remove(lines[i], Chars("MATCH:"))), Chars("YES"))

C7_Witness ==
    /\ Succeeded("vision")
    /\ ai_response = "YES\nDESCRIPTION: YES, a cat"
    /\ ~is_match
    /\ description = "YES, a cat"
    /\ message = "Great effort on your drawing!"

====
